---- MODULE Spec2Model ----
(***************************************************************************)
(* A model of the battle referee of loa: Simulator.play (simulator.py),    *)
(* its evasion gate, and TeamExaminer (team.py) with its time guard, its   *)
(* consistency guard and its Round-01 eligibility rules.                   *)
(*                                                                         *)
(* Conventions.                                                            *)
(*  - Python floats are fixed-point integers counted in units of           *)
(*    10^-(Digits+1), one decimal digit finer than round(x, 4) keeps.      *)
(*  - Slot indices are 1-based here (Python's slot i is slot i+1), and so  *)
(*    are the recorded positions of the units.                             *)
(*  - copy.deepcopy is the identity on values: a TLA+ value has no         *)
(*    aliases.  The only aliases of the code, offense/defense for          *)
(*    team1_cpy/team2_cpy, are modelled by the tag held in offense.        *)
(***************************************************************************)
EXTENDS Integers, Sequences, FiniteSets, TLC

VARIABLES
    pc,              \* position of the running operation
    err,             \* the exception that ended the operation, or NoErr
    constraints,     \* TeamExaminer._constraints
    league_round,    \* Simulator._league_round
    team1, team2,    \* the caller's teams, arguments of play
    num_turns, num_repeats,
    i, t, j,         \* trial index, turn index, slot index of the attack loop
    team1_cpy, team2_cpy,
    offense,         \* which copy the name offense is bound to
    num_wins_team1, num_wins_team2, num_draws,
    guard,           \* what the last _check_arrange saw
    gate,            \* what the last _try_evasion saw
    judge,           \* the last call play made to the judge
    exam             \* the arguments of the last TeamExaminer.check

vars == <<pc, err, constraints, league_round, team1, team2, num_turns,
          num_repeats, i, t, j, team1_cpy, team2_cpy, offense,
          num_wins_team1, num_wins_team2, num_draws, guard, gate, judge,
          exam>>

(***************************************************************************)
(* Bounds of the model.                                                    *)
(***************************************************************************)
MaxSlots == 2
MaxTurns == 2
MaxRepeats == 2
DrawRes == 2        \* the draw of random.uniform takes the values k/DrawRes

(***************************************************************************)
(* Numbers.                                                                *)
(***************************************************************************)
Digits == 4
Scale == 10 ^ (Digits + 1)
DefaultTimeLimit == 10000
EvsPercent == 100

Max(a, b) == IF a >= b THEN a ELSE b

\* Python's round(x, Digits) of a value counted in 1/Scale: to the nearest
\* multiple of 10/Scale, a tie going to the even one.
Round4(x) ==
    LET q == x \div 10
        r == x % 10
    IN  IF r < 5 THEN 10 * q
        ELSE IF r > 5 THEN 10 * (q + 1)
        ELSE IF q % 2 = 0 THEN 10 * q ELSE 10 * (q + 1)

(***************************************************************************)
(* Values.                                                                 *)
(***************************************************************************)
None == [none |-> TRUE]
NoErr == "NoErr"

Truthy(x) == x # None

\* A Unit: its class-level base stats HP, ATT, ARM, EVS and its current stats,
\* which the constructor sets to the base stats (examples/example_01.py).  A
\* name is a pair, as "A-Unit01" is a prefix and a number.
Unit(name, pos, HP, ATT, ARM, EVS) ==
    [name |-> name, pos |-> pos,
     HP |-> HP, ATT |-> ATT, ARM |-> ARM, EVS |-> EVS,
     hp |-> HP, att |-> ATT, arm |-> ARM, evs |-> EVS]

Team(name, units) == [name |-> name, units |-> units]

SeqsUpTo(S, n) == UNION {[1..k -> S] : k \in 0..n}

(***************************************************************************)
(* Team (team.py).                                                         *)
(***************************************************************************)
\* Team.__len__: the number of truthy slots.
TeamLen(team) == Cardinality({k \in DOMAIN team.units : Truthy(team.units[k])})

\* Team.num_positions: the number of slots.
num_positions(team) == Len(team.units)

\* set(team.units)
UnitSet(team) == {team.units[k] : k \in DOMAIN team.units}

\* A bug that refuses a reordering: the slots are compared in order.
TeamEqOrdered(self, other) == self.units = other.units

\* Team.__eq__: both sets are built from self.units.
TeamEq(self, other) ==
    LET set_team1 == UnitSet(self)
        set_team2 == UnitSet(self)
    IN  set_team1 = set_team2

\* Team.__ne__
TeamNe(self, other) == ~TeamEq(self, other)

(***************************************************************************)
(* The strategy hook Team.arrange(enemy): code of the caller.  What it     *)
(* does to the team it is called on is one of these.                       *)
(***************************************************************************)
Intruder(pos) == Unit(<<"X", pos>>, pos, 1 * Scale, 1 * Scale, 0, 0)

\* The first slot of S, if any.
FirstOf(S) == {k \in S : \A m \in S : k <= m}

\* Nothing; an exchange of two neighbouring slots, the recorded positions
\* following or not; a unit replaced by one the team never had; a unit
\* removed; an empty slot filled; a slot added.
Hooks(team) ==
    LET n == Len(team.units)
        occ == {k \in 1..n : Truthy(team.units[k])}
        emp == (1..n) \ occ
    IN  {[kind |-> "pass", a |-> 0, b |-> 0]}
        \cup {[kind |-> kd, a |-> k, b |-> k + 1] :
                 kd \in {"reorder", "reorder_keep_pos"}, k \in 1..(n - 1)}
        \cup {[kind |-> "replace", a |-> k, b |-> 0] : k \in FirstOf(occ)}
        \cup {[kind |-> "remove", a |-> k, b |-> 0] : k \in FirstOf(occ)}
        \cup {[kind |-> "fill", a |-> k, b |-> 0] : k \in FirstOf(emp)}
        \cup {[kind |-> "append", a |-> k + 1, b |-> 0] : k \in {n} \cap (0..MaxSlots)}

Moved(u, pos) == IF Truthy(u) THEN [u EXCEPT !.pos = pos] ELSE u

Arrange(team, h) ==
    LET us == team.units
    IN  CASE h.kind = "pass" -> team
          [] h.kind = "reorder" ->
                [team EXCEPT !.units = [us EXCEPT ![h.a] = Moved(us[h.b], h.a),
                                                  ![h.b] = Moved(us[h.a], h.b)]]
          [] h.kind = "reorder_keep_pos" ->
                [team EXCEPT !.units = [us EXCEPT ![h.a] = us[h.b],
                                                  ![h.b] = us[h.a]]]
          [] h.kind = "replace" -> [team EXCEPT !.units[h.a] = Intruder(h.a)]
          [] h.kind = "fill" -> [team EXCEPT !.units[h.a] = Intruder(h.a)]
          [] h.kind = "remove" -> [team EXCEPT !.units[h.a] = None]
          [] h.kind = "append" -> [team EXCEPT !.units = Append(us, Intruder(h.a))]

\* What the hook does to the enemy it is given: nothing, or it empties the
\* first occupied slot of it.
Meddles == {"pass", "kill"}

Meddle(enemy, m) ==
    LET occ == {k \in DOMAIN enemy.units : Truthy(enemy.units[k])}
    IN  IF m = "kill" /\ occ # {}
        THEN [enemy EXCEPT !.units[CHOOSE k \in FirstOf(occ) : TRUE] = None]
        ELSE enemy

(***************************************************************************)
(* TeamExaminer (team.py).                                                 *)
(***************************************************************************)
\* The league rounds a caller passes; "" stands for None and for the empty
\* string, both falsy.
Rounds == {"", "ROUND-01", "round-01", "ROUND-02", "Round-02", "ROUND-03"}

\* str.upper on the rounds above.
Upper(s) ==
    CASE s \in {"ROUND-01", "round-01"} -> "ROUND-01"
      [] s \in {"ROUND-02", "Round-02"} -> "ROUND-02"
      [] OTHER -> s

\* if not league_round: league_round = "ROUND-01"; league_round.upper()
NormRound(r) == Upper(IF r = "" THEN "ROUND-01" ELSE r)

\* name.isspace() or len(name.split()) == 0, on the names of the model.
IsBlank(name) == name \in {"", " "}

\* TeamExaminer._get_time_limit
get_time_limit(cons, r) ==
    LET round == NormRound(r)
    IN  IF round \in {"ROUND-01", "ROUND-02"}
           /\ "ARRANGE_TIME_LIMIT" \in DOMAIN cons[round].TEAM
        THEN cons[round].TEAM.ARRANGE_TIME_LIMIT
        ELSE DefaultTimeLimit

\* A bug: the size comparison is skipped.
check_consistency_no_size(origin, copied) ==
    [err |-> IF TeamNe(origin, copied) THEN "TeamConsistencyError:units" ELSE NoErr,
     members_compared |-> TRUE]

\* TeamExaminer._check_consistency: the exception it raises, or NoErr, and
\* whether origin != copied was evaluated.
check_consistency(origin, copied) ==
    IF TeamLen(origin) # TeamLen(copied)
    THEN [err |-> "TeamConsistencyError:size", members_compared |-> FALSE]
    ELSE [err |-> IF TeamNe(origin, copied) THEN "TeamConsistencyError:units"
                  ELSE NoErr,
          members_compared |-> TRUE]

\* A bug: an elapsed time equal to the limit is refused too.
TimedOutAtLimit(t_elapsed, t_limit) == t_elapsed >= t_limit

\* if t_elapsed > t_limit
TimedOut(t_elapsed, t_limit) == t_elapsed > t_limit

\* TeamExaminer._check_arrange, the hook doing h to the copy of offense and
\* taking t_elapsed: what the guard saw, and the exception it raises.
check_arrange(cons, offense_team, defense_team, r, h, t_elapsed) ==
    LET offense_cpy == Arrange(offense_team, h)
        t_limit == get_time_limit(cons, r)
        late == TimedOut(t_elapsed, t_limit)
        consistency == check_consistency(offense_team, offense_cpy)
    IN  [ran |-> TRUE, origin |-> offense_team, copied |-> offense_cpy,
         round |-> r, hook |-> h,
         t_elapsed |-> t_elapsed, t_limit |-> t_limit,
         consistency_checked |-> ~late,
         members_compared |-> ~late /\ consistency.members_compared,
         err |-> IF late THEN "ArrangeTimeoutError" ELSE consistency.err]

NoGuard == [ran |-> FALSE]

\* TeamExaminer._check_types and _check_unit_type: every slot is None or a Unit.
UnitFields == {"name", "pos", "HP", "ATT", "ARM", "EVS", "hp", "att", "arm", "evs"}
check_types(team) ==
    IF \A k \in DOMAIN team.units :
          team.units[k] = None \/ UnitFields \subseteq DOMAIN team.units[k]
    THEN NoErr ELSE "TypeError"

\* TeamExaminer._check_name
check_name(team) == IF IsBlank(team.name) THEN "ValueError:name" ELSE NoErr

\* TeamExaminer._check_attributes
check_attributes(team) ==
    IF /\ {"name", "units"} \subseteq DOMAIN team
       /\ \A k \in DOMAIN team.units :
             team.units[k] = None \/ UnitFields \subseteq DOMAIN team.units[k]
    THEN NoErr ELSE "AttributeError"

\* A bug: the positions are not compared.
check_positions_skipped(team) == NoErr

\* TeamExaminer._check_positions
check_positions(team) ==
    IF \E k \in DOMAIN team.units :
          Truthy(team.units[k]) /\ team.units[k].pos # k
    THEN "ValueError:pos" ELSE NoErr

\* The first exception of a sequence of checks run in order.
First(outcomes) ==
    LET bad == {k \in DOMAIN outcomes : outcomes[k] # NoErr}
    IN  IF bad = {} THEN NoErr
        ELSE outcomes[CHOOSE k \in bad : \A m \in bad : k <= m]

(***************************************************************************)
(* TeamExaminer._check_constraints.                                        *)
(***************************************************************************)
RECURSIVE SumSeq(_)
SumSeq(s) == IF s = <<>> THEN 0 ELSE Head(s) + SumSeq(Tail(s))

\* The digits after the point of rem / b, n of them.
RECURSIVE Frac(_, _, _)
Frac(rem, b, n) ==
    IF n = 0 THEN 0
    ELSE ((rem * 10) \div b) * 10 ^ (n - 1) + Frac((rem * 10) % b, b, n - 1)

\* float(a) / float(b) for b # 0, kept to Digits + 1 decimal digits.
FloatDiv(a, b) == (a \div b) * Scale + Frac(a % b, b, Digits + 1)

\* A bug: a sum equal to the ceiling is refused too.
ExceedsAtCeiling(sum, ceiling) == Round4(sum) >= ceiling

\* round(sum, 4) > ceiling
Exceeds(sum, ceiling) == Round4(sum) > ceiling

\* What the loop of ROUND-01 raises on the unit of one slot, NoErr if nothing.
R01Unit(C, unit) ==
    IF unit = None THEN "AttributeError"            \* None has no evs
    ELSE IF unit.evs > C.UNIT_MAX_EVS THEN "ValueError:UNIT_MAX_EVS"
    ELSE IF unit.arm = 0 THEN "ZeroDivisionError"
    ELSE NoErr

\* The ROUND-01 branch of _check_constraints.
check_constraints_r01(C, team) ==
    LET us == team.units
        loop == First([k \in DOMAIN us |-> R01Unit(C, us[k])])
        sum_hp == SumSeq([k \in DOMAIN us |-> us[k].hp])
        sum_att == SumSeq([k \in DOMAIN us |-> us[k].att])
        sum_arm == SumSeq([k \in DOMAIN us |-> us[k].arm])
        sum_unit_evs_div_arm ==
            SumSeq([k \in DOMAIN us |-> FloatDiv(us[k].evs, us[k].arm)])
        sum_hp_att_arm == sum_hp + sum_att + sum_arm
    IN  IF TeamLen(team) # C.NUM_UNITS THEN "ValueError:NUM_UNITS"
        ELSE IF loop # NoErr THEN loop
        ELSE IF Exceeds(sum_hp_att_arm, C.SUM_HP_ATT_ARM)
             THEN "ValueError:SUM_HP_ATT_ARM"
        ELSE IF Exceeds(sum_unit_evs_div_arm, C.SUM_UNIT_EVS_DIV_ARM)
             THEN "ValueError:SUM_UNIT_EVS_DIV_ARM"
        ELSE NoErr

\* What the loop of ROUND-02 raises on the unit of one slot, NoErr if nothing.
R02Unit(C, unit) ==
    IF unit = None THEN "AttributeError"            \* None has no ATT
    ELSE IF unit.ATT > C.UNIT_MAX_ATT THEN "ValueError:UNIT_MAX_ATT"
    ELSE IF unit.HP < C.UNIT_MIN_HP THEN "ValueError:UNIT_MIN_HP"
    ELSE IF unit.evs > 0 THEN "ValueError:evs"
    ELSE IF 2 * (unit.HP + unit.ATT) + 3 * unit.ARM > 2 * C.UNIT_SUM_HP_ATT_1d5ARM
         THEN "ValueError:UNIT_SUM_HP_ATT_1d5ARM"
    ELSE NoErr

\* The ROUND-02 branch of _check_constraints.
check_constraints_r02(C, team) ==
    LET us == team.units
        loop == First([k \in DOMAIN us |-> R02Unit(C, us[k])])
    IN  IF TeamLen(team) # C.NUM_UNITS THEN "ValueError:NUM_UNITS"
        ELSE loop

\* TeamExaminer._check_constraints: the exception it raises, or NoErr.
check_constraints(cons, team, r) ==
    LET round == NormRound(r)
    IN  CASE round = "ROUND-01" -> check_constraints_r01(cons[round].TEAM, team)
          [] round = "ROUND-02" -> check_constraints_r02(cons[round].TEAM, team)
          [] OTHER -> "ValueError:league_round"

(***************************************************************************)
(* The evasion gate and the attack (simulator.py).                         *)
(***************************************************************************)
\* The values random.uniform(0, 1) takes: k / DrawRes in [0, 1).
Draws == 0..(DrawRes - 1)

\* A bug: the gate is inverted.
try_evasion_inverted(target, k) ==
    k * EvsPercent * Scale >= target.evs * DrawRes

\* EvasionSimulator._try_evasion: rn <= evsr, for evsr = target.evs / 100.
\* and rn = k / DrawRes.
try_evasion(target, k) ==
    k * EvsPercent * Scale <= target.evs * DrawRes

\* utils.attack(unit, target, Unit), the reference calculation: the pair
\* after the attack.
RefAttack(unit, target) ==
    [unit |-> unit,
     target |-> [target EXCEPT !.hp = target.hp - Max(unit.att - target.arm, 0)]]

\* unit.attack(target), code of the caller: the reference calculation, or
\* an attack that also raises the attacker's att, or one that leaves the
\* target as it was where the reference calculation takes hit points from it.
AttackKinds == {"ref", "self", "spare"}

UnitAttack(unit, target, kind) ==
    LET ref == RefAttack(unit, target)
    IN  CASE kind = "ref" -> ref
          [] kind = "self" -> [ref EXCEPT !.unit.att = unit.att + Scale]
          [] kind = "spare" -> [ref EXCEPT !.target = target]

\* A bug: a unit with no hit points left is kept, hp < 0 for hp <= 0.
clear_dead_units_below_zero(team) ==
    [team EXCEPT !.units =
        [k \in DOMAIN team.units |->
            IF ~Truthy(team.units[k]) THEN team.units[k]
            ELSE IF team.units[k].hp < 0 THEN None
            ELSE team.units[k]]]

\* Simulator._clear_dead_units
clear_dead_units(team) ==
    [team EXCEPT !.units =
        [k \in DOMAIN team.units |->
            IF ~Truthy(team.units[k]) THEN team.units[k]
            ELSE IF team.units[k].hp <= 0 THEN None
            ELSE team.units[k]]]

(***************************************************************************)
(* The inputs of the model.                                                *)
(***************************************************************************)
WithLimit(C, limit) ==
    [f \in DOMAIN C \cup {"ARRANGE_TIME_LIMIT"} |->
        IF f = "ARRANGE_TIME_LIMIT" THEN limit ELSE C[f]]

R01 == [NUM_UNITS |-> 2, UNIT_MAX_EVS |-> 10 * Scale,
        SUM_HP_ATT_ARM |-> 20 * Scale, SUM_UNIT_EVS_DIV_ARM |-> 5 * Scale]

R02 == [NUM_UNITS |-> 2, UNIT_MAX_ATT |-> 3 * Scale, UNIT_MIN_HP |-> 5 * Scale,
        UNIT_MAX_EVS |-> 0, UNIT_SUM_HP_ATT_1d5ARM |-> 11 * Scale]

\* The constraint table of constraints.yml: the arrangement time limit is
\* configured for ROUND-01 and left out for ROUND-02.
Config ==
    [r \in {"ROUND-01", "ROUND-02"} |->
        [TEAM |-> IF r = "ROUND-01" THEN WithLimit(R01, DefaultTimeLimit - 1) ELSE R02]]

\* The round the Simulator is built with.
SimRound == "round-01"

\* The elapsed times of an arrangement, in seconds: at the configured limit,
\* at the default limit, and above both.
Elapsed == {DefaultTimeLimit - 1, DefaultTimeLimit, DefaultTimeLimit + 1}

\* The teams passed to play: team1 fields strikers, team2 dodgers.
Striker(pos) == Unit(<<"S", pos>>, pos, 1 * Scale, 2 * Scale, 0, 0)
Dodger(pos) == Unit(<<"D", pos>>, pos, 2 * Scale, 1 * Scale, 0, EvsPercent * Scale)

\* Team.initialize of a strategy: a unit or nothing in each slot.
Shapes == SeqsUpTo({"unit", "none"}, MaxSlots)

PlayTeams1 ==
    {Team("A", [k \in DOMAIN sh |-> IF sh[k] = "unit" THEN Striker(k) ELSE None]) :
        sh \in Shapes}
PlayTeams2 ==
    {Team("B", [k \in DOMAIN sh |-> IF sh[k] = "unit" THEN Dodger(k) ELSE None]) :
        sh \in Shapes}

\* The teams passed to TeamExaminer.check.
CheckUnit(pos, hp, arm, evs) == Unit(<<"U", pos>>, pos, hp, 3 * Scale, arm, evs)

CheckUnits(pos) ==
    {None,
     CheckUnit(pos, 5 * Scale, 2 * Scale, 0),
     CheckUnit(pos, 5 * Scale + 4, 2 * Scale, 0),
     CheckUnit(pos, 5 * Scale + 6, 2 * Scale, 0),
     CheckUnit(pos, 6 * Scale, 2 * Scale, 0),
     CheckUnit(pos, 5 * Scale, 2 * Scale, 10 * Scale),
     CheckUnit(pos, 5 * Scale, 2 * Scale, 11 * Scale),
     CheckUnit(pos, 5 * Scale, 2 * Scale, -1 * Scale),
     CheckUnit(pos, 5 * Scale, 0, 0)}

CheckTeams ==
    {Team(nm, us) :
        nm \in {"T", " "},
        us \in {s \in SeqsUpTo(UNION {CheckUnits(k) : k \in 1..MaxSlots}, MaxSlots) :
                  \A k \in DOMAIN s : s[k] \in CheckUnits(k)}}

(***************************************************************************)
(* TeamExaminer.check_play and TeamExaminer.check.                         *)
(***************************************************************************)
\* TeamExaminer.check_play: what its _check_arrange saw, if it got there, and
\* the exception it raises.
check_play(cons, offense_team, defense_team, r, h, t_elapsed) ==
    LET before == First(<<check_types(offense_team), check_types(defense_team),
                          check_name(offense_team), check_name(defense_team),
                          check_attributes(offense_team),
                          check_attributes(defense_team),
                          check_positions(offense_team),
                          check_positions(defense_team)>>)
        g == check_arrange(cons, offense_team, defense_team, r, h, t_elapsed)
    IN  IF before # NoErr THEN [guard |-> NoGuard, err |-> before]
        ELSE [guard |-> g, err |-> g.err]

\* TeamExaminer.check
check(cons, team, r, h, t_elapsed) ==
    LET before == First(<<check_types(team), check_name(team),
                          check_attributes(team), check_positions(team)>>)
        eligible == check_constraints(cons, team, r)
        g == check_arrange(cons, team, team, r, h, t_elapsed)
    IN  IF before # NoErr THEN [guard |-> NoGuard, err |-> before]
        ELSE IF eligible # NoErr THEN [guard |-> NoGuard, err |-> eligible]
        ELSE [guard |-> g, err |-> g.err]

(***************************************************************************)
(* The state machine.                                                      *)
(***************************************************************************)
NoGate == [ran |-> FALSE]
NoExam == [ran |-> FALSE]
NoCall == [op |-> "none"]
NoTeam == Team("", <<>>)

Init ==
    /\ pc = "idle"
    /\ err = NoErr
    /\ constraints = Config
    /\ league_round = SimRound
    /\ team1 = NoTeam /\ team2 = NoTeam
    /\ num_turns = 0 /\ num_repeats = 0
    /\ i = 0 /\ t = 0 /\ j = 0
    /\ team1_cpy = NoTeam /\ team2_cpy = NoTeam
    /\ offense = "team1_cpy"
    /\ num_wins_team1 = 0 /\ num_wins_team2 = 0 /\ num_draws = 0
    /\ guard = NoGuard /\ gate = NoGate /\ exam = NoExam
    /\ judge = NoCall

Offense == IF offense = "team1_cpy" THEN team1_cpy ELSE team2_cpy
Defense == IF offense = "team1_cpy" THEN team2_cpy ELSE team1_cpy
Other(tag) == IF tag = "team1_cpy" THEN "team2_cpy" ELSE "team1_cpy"

\* The teams after the offense became o and the defense d.
SetTeams(o, d) ==
    /\ team1_cpy' = IF offense = "team1_cpy" THEN o ELSE d
    /\ team2_cpy' = IF offense = "team1_cpy" THEN d ELSE o

\* A bug: the judge is given the teams by their roles, offense first.
JudgeArgsByRole == <<offense, Other(offense)>>

\* The teams play passes to judge.update and judge.decide, by the names they
\* are bound to: (team1_cpy, team2_cpy).
JudgeArgs == <<"team1_cpy", "team2_cpy">>

Inputs == <<team1, team2, num_turns, num_repeats, constraints, league_round>>
Tallies == <<num_wins_team1, num_wins_team2, num_draws>>

\* A bug: the exception of a call is caught and the caller goes on.
PropagateSwallowed(e, next) == next

\* Where a caller without a try statement is after a call that raised e, or
\* returned (NoErr): the exception propagates out of it.
Propagate(e, next) == IF e = NoErr THEN next ELSE "raised"

\* if len(team1) != len(team2)
SizesDiffer(t1, t2) == TeamLen(t1) # TeamLen(t2)

\* Simulator.play, to the head of the loop over the trials.
Play(t1, t2, turns, repeats) ==
    /\ pc = "idle"
    /\ team1' = t1 /\ team2' = t2
    /\ num_turns' = turns /\ num_repeats' = repeats
    /\ IF SizesDiffer(t1, t2)
       THEN pc' = "raised" /\ err' = "ValueError:size"
       ELSE pc' = "repeat" /\ err' = NoErr
    /\ num_wins_team1' = 0 /\ num_wins_team2' = 0 /\ num_draws' = 0
    /\ i' = 0
    /\ UNCHANGED <<constraints, league_round, t, j, team1_cpy, team2_cpy,
                   offense, guard, gate, judge, exam>>

\* A bug: the copy has the slots of the team and none of its units.
deepcopy_cleared(team) ==
    [team EXCEPT !.units = [k \in DOMAIN team.units |-> None]]

\* copy.deepcopy(team): a team of the same value that shares nothing with
\* the team copied.
deepcopy(team) == team

\* A bug: team1's copy starts every trial on offense.
StartingOffenseFixed(trial) == "team1_cpy"

\* if i % 2 == 0: offense, defense = team1_cpy, team2_cpy, else the reverse.
StartingOffense(trial) == IF trial % 2 = 0 THEN "team1_cpy" ELSE "team2_cpy"

\* for i in range(num_repeats): the copies, the roles, judge.initialize().
TrialBegin ==
    /\ pc = "repeat" /\ i < num_repeats
    /\ team1_cpy' = deepcopy(team1) /\ team2_cpy' = deepcopy(team2)
    /\ offense' = StartingOffense(i)
    /\ judge' = [op |-> "initialize"]
    /\ t' = 0
    /\ pc' = "turn"
    /\ UNCHANGED <<err, Inputs, i, j, Tallies, guard, gate, exam>>

\* return num_wins_team1, num_wins_team2, num_draws
Return ==
    /\ pc = "repeat" /\ i >= num_repeats
    /\ pc' = "returned"
    /\ UNCHANGED <<err, Inputs, i, t, j, team1_cpy, team2_cpy, offense,
                   Tallies, guard, gate, judge, exam>>

\* A bug: the hook is given the defense itself.
AfterHookShared(defense, m) == Meddle(defense, m)

\* defense_cpy = copy.deepcopy(defense), then arrange(defense_cpy): the
\* defense after the hook did m to the copy it was given.
AfterHook(defense, m) ==
    LET defense_cpy == deepcopy(defense)
        enemy == Meddle(defense_cpy, m)
    IN  defense

\* for t in range(num_turns): self._examiner.check_play(...)
CheckPlay ==
    /\ pc = "turn" /\ t < num_turns
    /\ \E h \in Hooks(Offense), e \in Elapsed, m \in Meddles :
          LET r == check_play(constraints, Offense, Defense, league_round, h, e)
          IN  /\ guard' = r.guard
              /\ err' = r.err
              /\ pc' = Propagate(r.err, "arrange")
              /\ IF r.guard.ran
                 THEN SetTeams(Offense, AfterHook(Defense, m))
                 ELSE UNCHANGED <<team1_cpy, team2_cpy>>
    /\ gate' = NoGate
    /\ UNCHANGED <<Inputs, i, t, j, offense, Tallies, judge, exam>>

\* The loop over the turns ends with the last turn.
TurnsDone ==
    /\ pc = "turn" /\ t >= num_turns
    /\ pc' = "decide"
    /\ guard' = NoGuard /\ gate' = NoGate
    /\ UNCHANGED <<err, Inputs, i, t, j, team1_cpy, team2_cpy, offense,
                   Tallies, judge, exam>>

\* defense_cpy = copy.deepcopy(defense); offense.arrange(defense_cpy)
ArrangeLive ==
    /\ pc = "arrange"
    /\ \E h \in Hooks(Offense), m \in Meddles :
          SetTeams(Arrange(Offense, h), AfterHook(Defense, m))
    /\ j' = 1
    /\ pc' = "attack"
    /\ guard' = NoGuard /\ gate' = NoGate
    /\ UNCHANGED <<err, Inputs, i, t, offense, Tallies, judge, exam>>

(***************************************************************************)
(* EvasionSimulator._apply_attack, one slot at a step.                     *)
(***************************************************************************)
AttackFrame == <<err, Inputs, i, t, offense, Tallies, guard, judge, exam>>

\* The loop over the slots of offense is over.
AttackDone ==
    /\ pc = "attack" /\ j > Len(Offense.units)
    /\ pc' = "cleanup"
    /\ j' = 0
    /\ gate' = NoGate
    /\ UNCHANGED <<AttackFrame, team1_cpy, team2_cpy>>

\* target = defense[i] where defense has no slot i.
AttackIndexError ==
    /\ pc = "attack" /\ j <= Len(Offense.units) /\ j > Len(Defense.units)
    /\ pc' = "raised" /\ err' = "IndexError"
    /\ gate' = NoGate
    /\ UNCHANGED <<Inputs, i, t, j, offense, Tallies, guard, judge, exam,
                   team1_cpy, team2_cpy>>

\* if unit and target: fails
AttackSkip ==
    /\ pc = "attack" /\ j <= Len(Offense.units) /\ j <= Len(Defense.units)
    /\ ~(Truthy(Offense.units[j]) /\ Truthy(Defense.units[j]))
    /\ j' = j + 1
    /\ gate' = NoGate
    /\ UNCHANGED <<AttackFrame, pc, team1_cpy, team2_cpy>>

\* The gate has seen the draw k for the target.
GateOf(target, k) ==
    [ran |-> TRUE, evs |-> target.evs, rn |-> k, evaded |-> try_evasion(target, k)]

\* if self._try_evasion(target): continue
AttackEvaded ==
    /\ pc = "attack" /\ j <= Len(Offense.units) /\ j <= Len(Defense.units)
    /\ Truthy(Offense.units[j]) /\ Truthy(Defense.units[j])
    /\ \E k \in Draws :
          /\ try_evasion(Defense.units[j], k)
          /\ gate' = GateOf(Defense.units[j], k)
    /\ j' = j + 1
    /\ UNCHANGED <<AttackFrame, pc, team1_cpy, team2_cpy>>

\* A bug: the attack acts on the unit of the first slot, whatever the slot.
StruckFirst(team, slot, unit) == [team EXCEPT !.units[1] = unit]

\* The team whose unit of the slot, offense[i] or defense[i], is as the
\* attack left it: unit.attack(target) acts on the two objects in place.
Struck(team, slot, unit) == [team EXCEPT !.units[slot] = unit]

\* unit.attack(target), then the comparison with the reference calculation.
AttackHit ==
    /\ pc = "attack" /\ j <= Len(Offense.units) /\ j <= Len(Defense.units)
    /\ Truthy(Offense.units[j]) /\ Truthy(Defense.units[j])
    /\ \E k \in Draws, kind \in AttackKinds :
          LET unit == Offense.units[j]
              target == Defense.units[j]
              real == UnitAttack(unit, target, kind)
              cpy == RefAttack(unit, target)
          IN  /\ ~try_evasion(target, k)
              /\ gate' = GateOf(target, k)
              /\ SetTeams(Struck(Offense, j, real.unit),
                          Struck(Defense, j, real.target))
              /\ IF cpy.unit # real.unit
                 THEN pc' = "raised" /\ err' = "RuntimeError" /\ j' = j
                 ELSE pc' = pc /\ err' = err /\ j' = j + 1
    /\ UNCHANGED <<Inputs, i, t, offense, Tallies, guard, judge, exam>>

\* self._clear_dead_units(offense); self._clear_dead_units(defense)
Cleanup ==
    /\ pc = "cleanup"
    /\ team1_cpy' = clear_dead_units(team1_cpy)
    /\ team2_cpy' = clear_dead_units(team2_cpy)
    /\ pc' = "judge"
    /\ UNCHANGED <<err, Inputs, i, t, j, offense, Tallies, guard, gate, judge,
                   exam>>

\* A bug: the match goes on until both sides are empty.
MatchOverBoth(o, d) == TeamLen(o) = 0 /\ TeamLen(d) = 0

\* len(offense) == 0 or len(defense) == 0
MatchOver(o, d) == TeamLen(o) = 0 \/ TeamLen(d) = 0

\* judge.update(...); if len(offense) == 0 or len(defense) == 0: break
JudgeBreak ==
    /\ pc = "judge"
    /\ MatchOver(Offense, Defense)
    /\ judge' = [op |-> "update", t |-> t, args |-> JudgeArgs]
    /\ pc' = "decide"
    /\ UNCHANGED <<err, Inputs, i, t, j, team1_cpy, team2_cpy, offense,
                   Tallies, guard, gate, exam>>

\* judge.update(...); offense, defense = defense, offense
JudgeSwap ==
    /\ pc = "judge"
    /\ ~MatchOver(Offense, Defense)
    /\ judge' = [op |-> "update", t |-> t, args |-> JudgeArgs]
    /\ offense' = Other(offense)
    /\ t' = t + 1
    /\ pc' = "turn"
    /\ UNCHANGED <<err, Inputs, i, j, team1_cpy, team2_cpy, Tallies, guard,
                   gate, exam>>

\* What judge.decide may return: a team name, None, or anything else.
Verdicts == {team1.name, team2_cpy.name, "None", "nobody"}

\* A bug: a verdict that names neither team is not counted.
TallyNoDraw(winner) ==
    IF winner = team1.name THEN <<1, 0, 0>>
    ELSE IF winner = team2_cpy.name THEN <<0, 1, 0>>
    ELSE <<0, 0, 0>>

\* The increments of num_wins_team1, num_wins_team2 and num_draws.
Tally(winner) ==
    IF winner = team1.name THEN <<1, 0, 0>>
    ELSE IF winner = team2_cpy.name THEN <<0, 1, 0>>
    ELSE <<0, 0, 1>>

\* winner = judge.decide(team1_cpy, team2_cpy) and the tally.  The trial is
\* over: its copies and counters are dead, and are reset here.
Decide ==
    /\ pc = "decide"
    /\ \E winner \in Verdicts :
          /\ num_wins_team1' = num_wins_team1 + Tally(winner)[1]
          /\ num_wins_team2' = num_wins_team2 + Tally(winner)[2]
          /\ num_draws' = num_draws + Tally(winner)[3]
    /\ judge' = [op |-> "decide", args |-> JudgeArgs]
    /\ i' = i + 1
    /\ pc' = "repeat"
    /\ team1_cpy' = NoTeam /\ team2_cpy' = NoTeam
    /\ offense' = "team1_cpy" /\ t' = 0
    /\ UNCHANGED <<err, Inputs, j, guard, gate, exam>>

\* TeamExaminer.check(team, league_round)
Check(team, r) ==
    /\ pc = "idle"
    /\ \E h \in Hooks(team), e \in Elapsed :
          LET res == check(constraints, team, r, h, e)
          IN  /\ guard' = res.guard
              /\ err' = res.err
              /\ pc' = Propagate(res.err, "checked")
    /\ exam' = [ran |-> TRUE, team |-> team, round |-> r]
    /\ UNCHANGED <<Inputs, i, t, j, team1_cpy, team2_cpy, offense, Tallies,
                   gate, judge>>

Next ==
    \/ /\ pc = "idle"
       /\ \E t1 \in PlayTeams1, t2 \in PlayTeams2,
             turns \in 0..MaxTurns, repeats \in 0..MaxRepeats :
               Play(t1, t2, turns, repeats)
    \/ TrialBegin
    \/ Return
    \/ CheckPlay
    \/ TurnsDone
    \/ ArrangeLive
    \/ AttackDone
    \/ AttackIndexError
    \/ AttackSkip
    \/ AttackEvaded
    \/ AttackHit
    \/ Cleanup
    \/ JudgeBreak
    \/ JudgeSwap
    \/ Decide
    \/ /\ pc = "idle"
       /\ \E team \in CheckTeams, r \in Rounds : Check(team, r)

Spec == Init /\ [][Next]_vars

\* The steps of a play that was called.
Running ==
    \/ TrialBegin \/ Return \/ CheckPlay \/ TurnsDone \/ ArrangeLive
    \/ AttackDone \/ AttackIndexError \/ AttackSkip \/ AttackEvaded \/ AttackHit
    \/ Cleanup \/ JudgeBreak \/ JudgeSwap \/ Decide


(***************************************************************************)
(* The claims.                                                             *)
(***************************************************************************)
PlayCalled == pc # "idle" /\ ~exam.ran
InTrial == pc \in {"turn", "arrange", "attack", "cleanup", "judge", "decide"}
TallySum == num_wins_team1 + num_wins_team2 + num_draws

\* The occupied slots' units, and a unit without its recorded position.
Occupied(team) == {team.units[k] : k \in {m \in DOMAIN team.units : Truthy(team.units[m])}}
Ident(u) == [u EXCEPT !.pos = 0]
Combatants(team) == {Ident(u) : u \in Occupied(team)}

\* C1: when play returns, the three tallies add up to the number of trials;
\* while it runs they add up to the number of trials decided so far, and
\* each decision raises exactly one of the three by one.
C1_TalliesAddUp ==
    /\ [](PlayCalled /\ pc = "returned" => TallySum = num_repeats)
    /\ [](PlayCalled /\ (pc = "repeat" \/ InTrial) => TallySum = i)
    /\ [][pc = "decide" =>
            /\ TallySum' = TallySum + 1
            /\ num_wins_team1' \in {num_wins_team1, num_wins_team1 + 1}
            /\ num_wins_team2' \in {num_wins_team2, num_wins_team2 + 1}
            /\ num_draws' \in {num_draws, num_draws + 1}]_vars

\* play returned after two trials, one won by team1 and one drawn.
C1_Witness ==
    /\ pc = "returned" /\ num_repeats = 2 /\ num_turns = 2
    /\ num_wins_team1 = 1 /\ num_draws = 1

\* C2: a hook that puts a combatant the snapshot did not hold in the place of
\* one of the team's own, the number of living units staying the same, is
\* refused by the consistency guard with the error of changed units.
C2_ReplacedCombatantIsRefused ==
    (/\ guard.ran /\ guard.consistency_checked
     /\ TeamLen(guard.origin) = TeamLen(guard.copied)
     /\ Combatants(guard.copied) \ Combatants(guard.origin) # {})
    => guard.err = "TeamConsistencyError:units"

\* C3: a hook that changes the number of living units of the team it is
\* called on is refused by the consistency guard with the error of a changed
\* size, and the members are not compared.
C3_ChangedSizeIsRefused ==
    (/\ guard.ran /\ guard.consistency_checked
     /\ TeamLen(guard.origin) # TeamLen(guard.copied))
    => /\ guard.err = "TeamConsistencyError:size"
       /\ ~guard.members_compared

\* The guard refused a hook that filled an empty slot.
C3_Witness ==
    /\ guard.ran /\ guard.hook.kind = "fill"
    /\ TeamLen(guard.copied) = TeamLen(guard.origin) + 1
    /\ guard.err = "TeamConsistencyError:size"
    /\ pc = "raised"

\* C4: a hook that only moves the team's own combatants among the slots, the
\* same combatants and as many of them after as before, passes the
\* consistency guard.
C4_ReorderingPasses ==
    (/\ guard.ran /\ guard.consistency_checked
     /\ Len(guard.origin.units) = Len(guard.copied.units)
     /\ TeamLen(guard.origin) = TeamLen(guard.copied)
     /\ Combatants(guard.origin) = Combatants(guard.copied))
    => guard.err = NoErr

\* The guard let pass a hook that exchanged two occupied slots.
C4_Witness ==
    /\ guard.ran /\ guard.hook.kind = "reorder"
    /\ TeamLen(guard.origin) = 2
    /\ guard.copied.units # guard.origin.units
    /\ guard.err = NoErr /\ pc = "arrange"

\* C5: for a target of evasion 0 the gate never answers that it evades,
\* whatever the draw.
C5_ZeroEvasionNeverEvades ==
    (gate.ran /\ gate.evs = 0) => ~gate.evaded

\* C6: for a target of evasion 100 the gate answers that it evades whatever
\* the draw, and no attack step changes a defender of evasion 100.
C6_FullEvasionAlwaysEvades ==
    /\ []((gate.ran /\ gate.evs = EvsPercent * Scale) => gate.evaded)
    /\ [][(/\ pc = "attack" /\ j \in DOMAIN Defense.units
            /\ Truthy(Defense.units[j])
            /\ Defense.units[j].evs = EvsPercent * Scale)
           => (team1_cpy' = team1_cpy /\ team2_cpy' = team2_cpy)]_vars

\* A target of evasion 100 evaded the highest draw.
C6_Witness ==
    /\ gate.ran /\ gate.evs = EvsPercent * Scale
    /\ gate.rn = DrawRes - 1 /\ gate.evaded
    /\ pc = "attack"

\* C7: play raises the size error exactly when the two teams differ in their
\* numbers of slots.
C7_SizeErrorIffSlotCountsDiffer ==
    PlayCalled =>
        ((err = "ValueError:size") <=> (num_positions(team1) # num_positions(team2)))

\* The limit of the round in force: the ARRANGE_TIME_LIMIT configured for
\* it, 10000 if none is.
LimitInForce(r) ==
    LET round == IF r = "" THEN "ROUND-01" ELSE Upper(r)
    IN  IF round \in DOMAIN constraints
           /\ "ARRANGE_TIME_LIMIT" \in DOMAIN constraints[round].TEAM
        THEN constraints[round].TEAM.ARRANGE_TIME_LIMIT
        ELSE 10000

\* C8: the time guard raises the timeout error exactly when the elapsed time
\* of the arrangement is greater than the limit in force, and then the hook
\* has had its whole effect on the copy it was called on.
C8_TimeoutIffElapsedAboveLimit ==
    guard.ran =>
        /\ (guard.err = "ArrangeTimeoutError")
              <=> (guard.t_elapsed > LimitInForce(guard.round))
        /\ guard.copied = Arrange(guard.origin, guard.hook)

\* An arrangement that took exactly the configured limit passed the time
\* guard.
C8_Witness ==
    /\ guard.ran /\ guard.t_elapsed = guard.t_limit
    /\ guard.t_limit # DefaultTimeLimit
    /\ guard.consistency_checked /\ guard.err # "ArrangeTimeoutError"

\* What check looked at, when it got as far as the eligibility rules of
\* ROUND-01, and the ceiling it read.
ExamR01 ==
    /\ exam.ran /\ NormRound(exam.round) = "ROUND-01"
    /\ check_types(exam.team) = NoErr /\ check_name(exam.team) = NoErr
    /\ check_attributes(exam.team) = NoErr /\ check_positions(exam.team) = NoErr

C01 == constraints["ROUND-01"].TEAM

\* The team meets the unit count, the evasion limit of each unit and the
\* limit of the sum of evasion / armor: every slot holds a unit with an
\* armor to divide by.
MeetsOtherLimits(team) ==
    /\ TeamLen(team) = C01.NUM_UNITS
    /\ \A k \in DOMAIN team.units :
          /\ Truthy(team.units[k])
          /\ team.units[k].evs <= C01.UNIT_MAX_EVS
          /\ team.units[k].arm > 0
    /\ Round4(SumSeq([k \in DOMAIN team.units |->
                        FloatDiv(team.units[k].evs, team.units[k].arm)]))
          <= C01.SUM_UNIT_EVS_DIV_ARM

SumHpAttArm(team) ==
    SumSeq([k \in DOMAIN team.units |->
              team.units[k].hp + team.units[k].att + team.units[k].arm])

EligibilityErrors ==
    {"ValueError:NUM_UNITS", "ValueError:UNIT_MAX_EVS",
     "ValueError:SUM_HP_ATT_ARM", "ValueError:SUM_UNIT_EVS_DIV_ARM"}

\* C9 as claimed: under ROUND-01, a team that meets the other limits is
\* refused for its eligibility exactly when its sum of hp + att + arm is
\* greater than the ceiling.
C9_RefusedIffSumAboveCeiling ==
    (ExamR01 /\ MeetsOtherLimits(exam.team))
    => ((err \in EligibilityErrors)
          <=> (SumHpAttArm(exam.team) > C01.SUM_HP_ATT_ARM))

\* C9 as amended: under ROUND-01, a team that meets the other limits is
\* refused for its eligibility exactly when its sum of hp + att + arm,
\* rounded to 4 decimal digits, is greater than the ceiling; the error is
\* the one of the sum.
C9_RefusedIffRoundedSumAboveCeiling ==
    (ExamR01 /\ MeetsOtherLimits(exam.team))
    => /\ (err \in EligibilityErrors)
             <=> (Round4(SumHpAttArm(exam.team)) > C01.SUM_HP_ATT_ARM)
       /\ err \in EligibilityErrors => err = "ValueError:SUM_HP_ATT_ARM"

\* A team whose sum is exactly the ceiling went through the eligibility
\* rules of ROUND-01 and the whole check.
C9_Witness ==
    /\ ExamR01 /\ MeetsOtherLimits(exam.team)
    /\ SumHpAttArm(exam.team) = C01.SUM_HP_ATT_ARM
    /\ pc = "checked" /\ err = NoErr

\* C10: during a match no step changes the number of slots of a team, fills
\* an empty slot, or leaves a team with more living units than the team
\* passed to play has slots.
C10_SlotsAreOnlyCleared ==
    [][(InTrial /\ InTrial') =>
          /\ Len(team1_cpy'.units) = Len(team1_cpy.units)
          /\ Len(team2_cpy'.units) = Len(team2_cpy.units)
          /\ TeamLen(team1_cpy') <= Len(team1.units)
          /\ TeamLen(team2_cpy') <= Len(team2.units)
          /\ \A k \in DOMAIN team1_cpy.units :
                ~Truthy(team1_cpy.units[k]) => ~Truthy(team1_cpy'.units[k])
          /\ \A k \in DOMAIN team2_cpy.units :
                ~Truthy(team2_cpy.units[k]) => ~Truthy(team2_cpy'.units[k])]_vars

\* A turn is being played: from its check_play to its judge.update.
InTurn ==
    \/ pc = "turn" /\ t < num_turns
    \/ pc \in {"arrange", "attack", "cleanup", "judge"}

\* C11: in turn t of trial i the offense is team1's copy exactly when i + t
\* is even: team1's copy starts the even trials on offense, and the roles
\* swap after every turn that does not end the match.
C11_OffenseByParity ==
    /\ [](InTurn => ((offense = "team1_cpy") <=> ((i + t) % 2 = 0)))
    /\ [][pc = "repeat" /\ pc' = "turn" =>
            ((offense' = "team1_cpy") <=> (i % 2 = 0))]_vars
    /\ [][pc = "judge" /\ pc' = "turn" =>
            (offense' # offense /\ t' = t + 1 /\ i' = i)]_vars

\* The second turn of the second trial is being played, team1's copy on
\* offense.
C11_Witness ==
    /\ pc = "attack" /\ i = 1 /\ t = 1 /\ offense = "team1_cpy"
    /\ TeamLen(team1_cpy) > 0

\* C12: the arrangement that acts on the live offense is covered by the
\* guards: an arrangement step either leaves the live offense with the
\* number of living units it had, and the turn goes on to the attack, or
\* ends the turn with the consistency error of a changed size.
C12_LiveArrangementIsGuarded ==
    [][pc = "arrange" =>
          \/ /\ pc' = "attack"
             /\ TeamLen(Offense') = TeamLen(Offense)
          \/ /\ pc' = "raised"
             /\ err' = "TeamConsistencyError:size"]_vars

\* An attack is being applied to slot j: both slots are occupied.
Attacking ==
    /\ pc = "attack"
    /\ j \in DOMAIN Offense.units /\ j \in DOMAIN Defense.units
    /\ Truthy(Offense.units[j]) /\ Truthy(Defense.units[j])

\* C13: whenever an attack leaves the attacker or the target in a state
\* other than the one the reference calculation gives on the copies made
\* before it, the attack step raises the RuntimeError of an illegal
\* behaviour; a difference in the target alone is enough.
C13_DivergingAttackIsRefused ==
    [][(/\ Attacking
        /\ gate'.ran /\ ~gate'.evaded
        /\ \/ Offense'.units[j] # RefAttack(Offense.units[j], Defense.units[j]).unit
           \/ Defense'.units[j] # RefAttack(Offense.units[j], Defense.units[j]).target)
       => (pc' = "raised" /\ err' = "RuntimeError")]_vars

\* C14: play never changes the teams passed to it, whether it returns or
\* raises, and every trial starts from copies equal to them, whatever the
\* trials before it did to their copies.
C14_OriginalsAreNeverChanged ==
    /\ [][pc # "idle" => (team1' = team1 /\ team2' = team2)]_vars
    /\ [][pc = "repeat" /\ pc' = "turn" =>
            (team1_cpy' = team1 /\ team2_cpy' = team2)]_vars
    /\ [](pc = "turn" /\ t = 0 => (team1_cpy = team1 /\ team2_cpy = team2))

\* In the second trial the copy of team1 has lost a unit that team1 still
\* has.
C14_Witness ==
    /\ pc = "judge" /\ i = 1
    /\ TeamLen(team1_cpy) < TeamLen(team1)
    /\ TeamLen(team1) = MaxSlots

\* C15: two teams are equal exactly when the combatants occupying the slots
\* of the one are, as a set, the combatants occupying the slots of the
\* other: wherever the guard compared the snapshot with the team after the
\* hook, it found them equal if and only if their sets of combatants are.
C15_EqualityIsSetEquality ==
    (guard.ran /\ guard.members_compared)
    => (TeamEq(guard.origin, guard.copied)
          <=> (Combatants(guard.origin) = Combatants(guard.copied)))

\* What check looked at, when it got as far as the eligibility rules of
\* ROUND-02.
ExamR02 ==
    /\ exam.ran /\ NormRound(exam.round) = "ROUND-02"
    /\ check_types(exam.team) = NoErr /\ check_name(exam.team) = NoErr
    /\ check_attributes(exam.team) = NoErr /\ check_positions(exam.team) = NoErr

EligibilityErrorsR02 ==
    {"ValueError:NUM_UNITS", "ValueError:UNIT_MAX_ATT", "ValueError:UNIT_MIN_HP",
     "ValueError:evs", "ValueError:UNIT_SUM_HP_ATT_1d5ARM"}

\* C16: under ROUND-02, a team with every slot occupied and a unit whose
\* evasion is not zero, above or below, is refused for its eligibility.
C16_NonZeroEvasionIsRefused ==
    (/\ ExamR02
     /\ \A k \in DOMAIN exam.team.units : Truthy(exam.team.units[k])
     /\ \E k \in DOMAIN exam.team.units : exam.team.units[k].evs # 0)
    => err \in EligibilityErrorsR02

\* C17: a failure inside a turn ends play at once.  The step that raises
\* leaves the tallies and the counters of the loops alone; an exception is
\* never pending anywhere but out of play; and nothing happens after it: no
\* later step, turn or trial, no decide, no return.
C17_FailureAbortsPlay ==
    /\ [](err # NoErr => pc = "raised")
    /\ [][pc # "raised"]_vars
    /\ [][(InTurn /\ err' # NoErr) =>
            /\ pc' = "raised"
            /\ i' = i /\ t' = t
            /\ UNCHANGED Tallies]_vars

\* The second trial of two failed on the time guard, the first one decided.
C17_Witness ==
    /\ pc = "raised" /\ err = "ArrangeTimeoutError"
    /\ guard.ran /\ ~exam.ran
    /\ i = 1 /\ num_repeats = 2 /\ TallySum = 1

\* The number of steps play has left at most, every hook, attack and judge
\* call returning: SlotSteps for the loop over the slots of one attack step,
\* TurnSteps for a turn, TrialSteps for a trial.
SlotSteps == MaxSlots + 2
TurnSteps == SlotSteps + 5
TrialSteps == num_turns * TurnSteps + 3

StepsLeft ==
    LET after == (num_repeats - i - 1) * TrialSteps + 1
        turns == (num_turns - t - 1) * TurnSteps
    IN  CASE pc = "repeat" -> (num_repeats - i) * TrialSteps + 1
          [] pc = "turn" -> after + 2 + turns + TurnSteps
          [] pc = "arrange" -> after + 2 + turns + SlotSteps + 4
          [] pc = "attack" -> after + 2 + turns + 4 + SlotSteps - j
          [] pc = "cleanup" -> after + 2 + turns + 2
          [] pc = "judge" -> after + 2 + turns + 1
          [] pc = "decide" -> after + 1
          [] OTHER -> 0

\* C18: a trial plays at most num_turns turns and ends at the first turn
\* whose cleanup leaves a side without living units, and play comes to its
\* end.  Every turn played has an index below num_turns in a trial below
\* num_repeats; a turn after the first begins only with both sides alive;
\* every step of play brings it nearer to its end, which is a return or an
\* exception, and a play that has not ended has a step to take.
C18_PlayIsBoundedAndEnds ==
    /\ [](InTurn => (t < num_turns /\ i < num_repeats))
    /\ [](pc = "turn" /\ t > 0 =>
             (TeamLen(team1_cpy) > 0 /\ TeamLen(team2_cpy) > 0))
    /\ [][(pc = "judge" /\ (TeamLen(team1_cpy) = 0 \/ TeamLen(team2_cpy) = 0))
            => (pc' = "decide" /\ t' = t)]_vars
    /\ [][pc = "judge" /\ pc' = "turn" => (t' = t + 1 /\ i' = i)]_vars
    /\ [][pc = "decide" => (pc' = "repeat" /\ i' = i + 1)]_vars
    /\ [](PlayCalled => StepsLeft >= 0)
    /\ [][PlayCalled => StepsLeft' < StepsLeft]_vars
    /\ [](PlayCalled => ((StepsLeft = 0) <=> (pc \in {"returned", "raised"})))
    /\ [](PlayCalled /\ pc \notin {"returned", "raised"} => ENABLED Running)

\* A trial ended before its turn limit: the first turn left team1's copy
\* without living units.
C18_Witness ==
    /\ pc = "decide" /\ t = 0 /\ num_turns = MaxTurns
    /\ TeamLen(team1) > 0
    /\ TeamLen(team1_cpy) = 0 /\ TeamLen(team2_cpy) > 0

\* The call sequence the judge has seen in the trial so far is in order:
\* what the last call must be when the next one is made.
UpdateOf(turn) == [op |-> "update", t |-> turn, args |-> <<"team1_cpy", "team2_cpy">>]
LastCallBeforeTurn(turn) ==
    IF turn = 0 THEN [op |-> "initialize"] ELSE UpdateOf(turn - 1)

\* C19: in every trial the judge sees initialize() once, before any turn;
\* then one update(t, team1_cpy, team2_cpy) for each turn played, t going
\* up from 0 by one, made after the attack and the cleanup of the turn; then
\* one decide(team1_cpy, team2_cpy) after the last update.  The copy of
\* team1 is the first team passed and the copy of team2 the second,
\* whichever is on offense.
C19_JudgeCallsInOrder ==
    /\ [][judge' # judge <=>
            (\/ pc = "repeat" /\ pc' = "turn"
             \/ pc = "judge"
             \/ pc = "decide")]_vars
    /\ [][pc = "repeat" /\ pc' = "turn" =>
            (/\ judge.op \in {"none", "decide"}
             /\ judge' = [op |-> "initialize"]
             /\ t' = 0)]_vars
    /\ [](InTurn => judge = LastCallBeforeTurn(t))
    /\ [][pc = "cleanup" => (pc' = "judge" /\ judge' = judge)]_vars
    /\ [][pc = "judge" => (judge' = UpdateOf(t) /\ pc' \in {"turn", "decide"})]_vars
    /\ [](pc = "decide" =>
            \/ judge = [op |-> "initialize"] /\ num_turns = 0
            \/ judge = UpdateOf(t) /\ num_turns > 0 /\ t < num_turns
            \/ judge = UpdateOf(t - 1) /\ t = num_turns /\ t > 0)
    /\ [][pc = "decide" =>
            (judge' = [op |-> "decide", args |-> <<"team1_cpy", "team2_cpy">>]
             /\ pc' = "repeat")]_vars

\* The judge is about to decide a trial of two turns that ended with
\* team2's copy on offense.
C19_Witness ==
    /\ pc = "decide" /\ i = 0 /\ num_turns = 2
    /\ judge = UpdateOf(1) /\ offense = "team2_cpy"
    /\ TeamLen(team1_cpy) = 0

\* C20: a step of the attack loop at slot j changes no unit of any other
\* slot and no number of slots; the gate is consulted, for the defender of
\* slot j, exactly when both slots j are occupied; where a slot j is empty
\* or the defender evaded, the step changes no unit at all; and an attack
\* that went through unrefused leaves the attacker as the reference
\* calculation does.
C20_AttackActsOnItsSlotOnly ==
    [][pc = "attack" =>
        /\ DOMAIN team1_cpy'.units = DOMAIN team1_cpy.units
        /\ DOMAIN team2_cpy'.units = DOMAIN team2_cpy.units
        /\ \A k \in DOMAIN team1_cpy.units \ {j} :
               team1_cpy'.units[k] = team1_cpy.units[k]
        /\ \A k \in DOMAIN team2_cpy.units \ {j} :
               team2_cpy'.units[k] = team2_cpy.units[k]
        /\ gate'.ran <=> Attacking
        /\ gate'.ran => gate'.evs = Defense.units[j].evs
        /\ (~Attacking \/ gate'.evaded) =>
               (team1_cpy' = team1_cpy /\ team2_cpy' = team2_cpy)
        /\ (Attacking /\ ~gate'.evaded /\ err' = NoErr) =>
               Offense'.units[j] = RefAttack(Offense.units[j], Defense.units[j]).unit
      ]_vars

\* The attack of the last slot went through and took hit points from the
\* defender of that slot; the defender of the first slot has all of its own.
C20_Witness ==
    /\ pc = "attack" /\ j = MaxSlots + 1
    /\ Len(Offense.units) = MaxSlots /\ Len(Defense.units) = MaxSlots
    /\ gate.ran /\ ~gate.evaded
    /\ Truthy(Offense.units[1]) /\ Truthy(Defense.units[1])
    /\ Defense.units[1].hp = Defense.units[1].HP
    /\ Defense.units[MaxSlots].hp < Defense.units[MaxSlots].HP

\* No occupied slot of the team holds a unit without hit points.
NoDead(team) ==
    \A k \in DOMAIN team.units :
        Truthy(team.units[k]) => team.units[k].hp > 0

\* The slots of the team after those of the units without hit points were
\* cleared and nothing else was done.
DeadCleared(team) ==
    [k \in DOMAIN team.units |->
        IF Truthy(team.units[k]) /\ team.units[k].hp <= 0 THEN None
        ELSE team.units[k]]

\* C21: the cleanup of a turn clears exactly the slots whose unit has
\* hp <= 0 and leaves every other slot as it was, so that at the judge
\* update of the turn, and at the decide that follows a turn, no occupied
\* slot of either team holds a unit with hp <= 0.
C21_CleanupClearsTheDead ==
    /\ [][pc = "cleanup" =>
            /\ pc' = "judge"
            /\ team1_cpy'.units = DeadCleared(team1_cpy)
            /\ team2_cpy'.units = DeadCleared(team2_cpy)
            /\ team1_cpy'.name = team1_cpy.name
            /\ team2_cpy'.name = team2_cpy.name]_vars
    /\ [](pc = "judge" => (NoDead(team1_cpy) /\ NoDead(team2_cpy)))
    /\ []((pc = "decide" /\ judge.op = "update") =>
             (NoDead(team1_cpy) /\ NoDead(team2_cpy)))

\* After the cleanup of a turn the first slot of team1's copy is cleared,
\* its unit having lost its hit points, and the second holds its unit as
\* it was.
C21_Witness ==
    /\ pc = "judge" /\ Len(team1.units) = 2 /\ TeamLen(team1) = 2
    /\ Len(team1_cpy.units) = 2
    /\ team1_cpy.units[1] = None
    /\ team1_cpy.units[2] = team1.units[2]

\* Every unit occupying a slot of the team records the position of the slot.
PositionsHold(team) ==
    \A k \in DOMAIN team.units :
        Truthy(team.units[k]) => team.units[k].pos = k

\* C22: a turn is played only from teams whose units all record the
\* position of their slot.  Where a unit of either team does not, left so by
\* an earlier arrangement, the turn ends at its first step with the error
\* of a position mismatch: no hook is run, not even by the guard, and no
\* unit is touched.
C22_TurnStartsWithPositionsInOrder ==
    /\ [][(pc = "turn" /\ t < num_turns) =>
            IF PositionsHold(team1_cpy) /\ PositionsHold(team2_cpy)
            THEN err' # "ValueError:pos" /\ guard'.ran
            ELSE /\ pc' = "raised" /\ err' = "ValueError:pos"
                 /\ ~guard'.ran
                 /\ team1_cpy' = team1_cpy /\ team2_cpy' = team2_cpy]_vars
    /\ [](pc = "arrange" =>
             (PositionsHold(team1_cpy) /\ PositionsHold(team2_cpy)))

\* The second turn of a trial was refused for a position that the live
\* arrangement of the first turn left wrong.
C22_Witness ==
    /\ pc = "raised" /\ err = "ValueError:pos" /\ ~exam.ran
    /\ t = 1 /\ ~guard.ran
    /\ PositionsHold(team1) /\ PositionsHold(team2)
    /\ ~(PositionsHold(team1_cpy) /\ PositionsHold(team2_cpy))

\* C23: the hook is given snapshots of the defense only: whatever it does
\* to the team it is given, neither the guarded arrangement of a turn nor
\* the arrangement of the live offense changes a slot or a unit of the live
\* defense; the guarded one changes nothing of the live offense either.
C23_DefenseIsOutOfTheHooksReach ==
    /\ [][pc = "turn" =>
            (team1_cpy' = team1_cpy /\ team2_cpy' = team2_cpy)]_vars
    /\ [][pc = "arrange" => (pc' = "attack" /\ Defense' = Defense)]_vars

\* The live arrangement of the first turn has changed the offense, and the
\* defense is the team that was copied.
C23_Witness ==
    /\ pc = "attack" /\ j = 1 /\ i = 0 /\ t = 0
    /\ team1_cpy # team1
    /\ team2_cpy = team2 /\ TeamLen(team2) = MaxSlots

====
